---------------------------- MODULE Spec2Model ----------------------------
(***************************************************************************)
(* Model of homgarapi/devices.py: the decoders that turn the status        *)
(* entries of a HomGar poll into the fields of the device objects.         *)
(*                                                                         *)
(* Python strings are sequences of one-character strings.  Python's None   *)
(* is the empty tuple and a present value v is <<v>>, so that an optional  *)
(* field can be compared with either.  A call's outcome carries the name   *)
(* of the exception that left it ("none" when it returned): assignments    *)
(* made before the raise are kept, as in Python.                           *)
(***************************************************************************)
EXTENDS Integers, Sequences, FiniteSets, TLC

VARIABLES
    kind,        \* the device's class
    dev,         \* the device object's attributes
    raised,      \* exception that left the last call, or "none"
    last,        \* the status entry of the last call, or NoEntry
    pc,          \* position of the process that drives the device
    s,           \* argument of _parse_stats_value
    stat,        \* its result
    items,       \* the padding bytes and records a flow-meter blob was made of
    bytesArray,  \* bytesArray of RainPointWaterFlowMeter._parse_status_d_value
    idx,         \* its cursor (0-based, as in the code)
    maxRead,     \* largest index the decode loop has asked bytesArray for
    batch,       \* the status batch of a poll
    pos,         \* next entry of the batch
    pass,        \* which application of the batch is running
    once,        \* the device after the first application
    onError      \* what the poll loop does with an exception

vars == <<kind, dev, raised, last, pc, s, stat, items, bytesArray, idx,
          maxRead, batch, pos, pass, once, onError>>

-----------------------------------------------------------------------------
(* Strings, optionals, Python built-ins *)

Chars(str) == [i \in 1..Len(str) |-> SubSeq(str, i, i)]

None == <<>>
Some(v) == <<v>>

Digits == Chars("0123456789")
IsDigit(c) == \E i \in 1..Len(Digits) : Digits[i] = c
DigitVal(c) == (CHOOSE i \in 1..Len(Digits) : Digits[i] = c) - 1
AllDigits(str) == \A i \in 1..Len(str) : IsDigit(str[i])

RECURSIVE DigitsToInt(_)
DigitsToInt(str) ==
    IF str = <<>> THEN 0
    ELSE 10 * DigitsToInt(SubSeq(str, 1, Len(str) - 1)) + DigitVal(str[Len(str)])

\* int(str): an optional sign, then one or more decimal digits; anything else
\* raises ValueError.  (Inputs here hold no white space and no underscores.)
IntParse(str) ==
    LET signed == Len(str) > 0 /\ str[1] \in {"-", "+"}
        body == IF signed THEN Tail(str) ELSE str
    IN  IF Len(body) > 0 /\ AllDigits(body)
        THEN [ok |-> TRUE,
              val |-> IF signed /\ str[1] = "-" THEN 0 - DigitsToInt(body)
                      ELSE DigitsToInt(body)]
        ELSE [ok |-> FALSE, val |-> 0]

\* str.split(sep) for a one-character separator: always at least one part.
RECURSIVE Split(_, _)
Split(str, sep) ==
    IF \A i \in 1..Len(str) : str[i] # sep THEN <<str>>
    ELSE LET i == CHOOSE k \in 1..Len(str) :
                      str[k] = sep /\ \A j \in 1..(k - 1) : str[j] # sep
         IN  <<SubSeq(str, 1, i - 1)>> \o Split(SubSeq(str, i + 1, Len(str)), sep)

\* str[2:]
From2(str) == SubSeq(str, 3, Len(str))

\* f"{n:02d}" for n >= 0
RECURSIVE IntToChars(_)
IntToChars(n) ==
    IF n < 10 THEN <<Digits[n + 1]>>
    ELSE IntToChars(n \div 10) \o <<Digits[(n % 10) + 1]>>
Format02d(n) == IF n < 10 THEN <<"0">> \o IntToChars(n) ELSE IntToChars(n)

-----------------------------------------------------------------------------
(* STATS_VALUE_REGEX and _parse_stats_value *)

AllAbsent == <<None, None, None, None>>

\* The regular expression ^(\d+)\((\d+)/(\d+)/(\d+)\) run over str from
\* position i: g is the group being read (1..4), from where it started.
\* Returns the position after the match and the four groups, or fails.
\* The expression has one way to match any string, so one scan decides it.
RECURSIVE RegexScan(_, _, _, _, _)
RegexScan(str, i, g, from, groups) ==
    LET closer == IF g = 1 THEN "(" ELSE IF g = 4 THEN ")" ELSE "/"
    IN  IF i > Len(str) THEN [ok |-> FALSE, end |-> i, groups |-> groups]
        ELSE IF IsDigit(str[i]) THEN RegexScan(str, i + 1, g, from, groups)
        ELSE IF str[i] = closer /\ i > from
             THEN LET gs == Append(groups, SubSeq(str, from, i - 1))
                  IN  IF g = 4 THEN [ok |-> TRUE, end |-> i + 1, groups |-> gs]
                      ELSE RegexScan(str, i + 1, g + 1, i + 1, gs)
        ELSE [ok |-> FALSE, end |-> i, groups |-> groups]

\* Pattern.fullmatch: the match must end where the string ends.
RegexFullMatch(str) ==
    LET m == RegexScan(str, 1, 1, 1, <<>>)
    IN  [ok |-> m.ok /\ m.end = Len(str) + 1, groups |-> m.groups]

\* Pattern.match: the match may stop before the end of the string.
RegexMatchPrefix(str) ==
    LET m == RegexScan(str, 1, 1, 1, <<>>)
    IN  [ok |-> m.ok, groups |-> m.groups]

GroupsToInts(m) ==
    IF m.ok
    THEN <<Some(DigitsToInt(m.groups[1])), Some(DigitsToInt(m.groups[2])),
           Some(DigitsToInt(m.groups[3])), Some(DigitsToInt(m.groups[4]))>>
    ELSE AllAbsent

\* A variant that uses match() where the code uses fullmatch().
parse_stats_value_prefix(str) == GroupsToInts(RegexMatchPrefix(str))

parse_stats_value(str) == GroupsToInts(RegexFullMatch(str))

\* _temp_to_mk: round(1000 * ((f * .1 - 32) * 5 / 9 + 273.15)), which is
\* (500 f + 2298350) / 9 rounded to the nearest integer (a ninth is never
\* half way, so the float's rounding rule does not matter).
temp_to_mk(f) == (2 * (500 * f + 2298350) + 9) \div 18


-----------------------------------------------------------------------------
(* The device classes and their constructors *)

Hubs == {"HomgarHubDevice", "RainPointDisplayHub", "RainPointMiniBoxHub"}
SubDevices == {"HomgarSubDevice", "RainPointSoilMoistureSensor",
               "RainPointRainSensor", "RainPointAirSensor",
               "RainPoint2ZoneTimer", "RainPointWaterFlowMeter"}
Kinds == Hubs \cup SubDevices

\* MODEL_CODES of each class; a device of a base class (a model the mapping
\* does not know) carries whatever code the catalog gave it.
ModelCode(k) ==
    CASE k = "RainPointDisplayHub" -> 264
      [] k = "RainPointSoilMoistureSensor" -> 72
      [] k = "RainPointRainSensor" -> 87
      [] k = "RainPointAirSensor" -> 262
      [] k = "RainPoint2ZoneTimer" -> 261
      [] k = "RainPointMiniBoxHub" -> 289
      [] k = "RainPointWaterFlowMeter" -> 80
      [] OTHER -> 999

\* HomgarDevice.__init__
HomgarDeviceInit(k) ==
    [model_code |-> ModelCode(k), did |-> "did", mid |-> "mid",
     address |-> None, rf_rssi |-> None]

\* HomgarHubDevice.__init__
HomgarHubDeviceInit(k) ==
    [HomgarDeviceInit(k) EXCEPT !.address = Some(1)]

\* HomgarSubDevice.__init__
HomgarSubDeviceInit(k, a) ==
    [HomgarDeviceInit(k) EXCEPT !.address = Some(a)]

\* The __init__ of the class k, for a subdevice at address a.  The rain
\* sensor's __init__ sets rainfall_mm_total twice and never creates
\* rainfall_mm_7days: the attribute appears with the first decode.
NewDevice(k, a) ==
    CASE k = "RainPointDisplayHub" ->
            [f \in {"wifi_rssi", "battery_state", "connected",
                    "temp_mk_current", "temp_mk_daily_max", "temp_mk_daily_min",
                    "temp_trend", "hum_current", "hum_daily_max",
                    "hum_daily_min", "hum_trend", "press_pa_current",
                    "press_pa_daily_max", "press_pa_daily_min", "press_trend"}
                |-> None] @@ HomgarHubDeviceInit(k)
      [] k \in {"HomgarHubDevice", "RainPointMiniBoxHub"} ->
            HomgarHubDeviceInit(k)
      [] k = "RainPointSoilMoistureSensor" ->
            [f \in {"temp_mk_current", "moist_percent_current",
                    "light_lux_current"} |-> None] @@ HomgarSubDeviceInit(k, a)
      [] k = "RainPointRainSensor" ->
            [f \in {"rainfall_mm_total", "rainfall_mm_hour",
                    "rainfall_mm_daily"} |-> None] @@ HomgarSubDeviceInit(k, a)
      [] k = "RainPointAirSensor" ->
            [f \in {"temp_mk_current", "temp_mk_daily_max", "temp_mk_daily_min",
                    "temp_trend", "hum_current", "hum_daily_max",
                    "hum_daily_min", "hum_trend"} |-> None]
                @@ HomgarSubDeviceInit(k, a)
      [] k = "RainPointWaterFlowMeter" ->
            [f \in {"endOfLastUsage", "currentDuration", "currentUsage",
                    "lastUsage", "lastDuration", "totalUsageCurrentDay",
                    "totalUsage"} |-> None] @@ HomgarSubDeviceInit(k, a)
      [] OTHER -> HomgarSubDeviceInit(k, a)

\* obj.name = value for each name of the function upd
SetAttrs(d, upd) == upd @@ d

\* The "D" + f"{self.address:02d}" of lines 69 and 135
DId(d) == <<"D">> \o Format02d(d.address[1])

\* get_device_status_ids, as each class inherits or overrides it: the base
\* class returns [], HomgarSubDevice and RainPointDisplayHub override it,
\* HomgarHubDevice and RainPointMiniBoxHub do not.
get_device_status_ids(k, d) ==
    CASE k = "RainPointDisplayHub" ->
            {Chars("connected"), Chars("state"), Chars("D01")}
      [] k \in SubDevices -> {DId(d)}
      [] OTHER -> {}

Returned(d) == [dev |-> d, raised |-> "none"]
Raised(d, e) == [dev |-> d, raised |-> e]

-----------------------------------------------------------------------------
(* The string-encoded status values *)

\* A variant that adds the new rssi to the one the device holds.
parse_general_status_d_value_sum(d, str) ==
    LET parts == Split(str, ",")
    IN  IF Len(parts) # 3 THEN Raised(d, "ValueError")
        ELSE IF ~IntParse(parts[2]).ok THEN Raised(d, "ValueError")
        ELSE Returned([d EXCEPT !.rf_rssi =
                         IF @ = None THEN Some(IntParse(parts[2]).val)
                         ELSE Some(@[1] + IntParse(parts[2]).val)])

\* HomgarDevice._parse_general_status_d_value
parse_general_status_d_value(d, str) ==
    LET parts == Split(str, ",")
    IN  IF Len(parts) # 3 THEN Raised(d, "ValueError")
        ELSE IF ~IntParse(parts[2]).ok THEN Raised(d, "ValueError")
        ELSE Returned([d EXCEPT !.rf_rssi = Some(IntParse(parts[2]).val)])

\* [_temp_to_mk(v) for v in t]: int(None) raises TypeError
TempsOk(t) == \A i \in 1..4 : t[i] # None
TempsToMk(t) == [i \in 1..4 |-> Some(temp_to_mk(t[i][1]))]

\* The float .1 * v, kept as the integer it was made from
Tenth(v) == [tenths |-> v]

\* RainPointDisplayHub._parse_device_specific_status_d_value
DisplayHubSpecific(d, str) ==
    LET parts == Split(str, ",")
    IN  IF Len(parts) < 3 THEN Raised(d, "ValueError")
        ELSE LET t == parse_stats_value(parts[1])
                 h == parse_stats_value(parts[2])
                 p == parse_stats_value(From2(parts[3]))
             IN  IF ~TempsOk(t) THEN Raised(d, "TypeError")
                 ELSE Returned(SetAttrs(d,
                        [temp_mk_current |-> TempsToMk(t)[1],
                         temp_mk_daily_max |-> TempsToMk(t)[2],
                         temp_mk_daily_min |-> TempsToMk(t)[3],
                         temp_trend |-> TempsToMk(t)[4],
                         hum_current |-> h[1], hum_daily_max |-> h[2],
                         hum_daily_min |-> h[3], hum_trend |-> h[4],
                         press_pa_current |-> p[1], press_pa_daily_max |-> p[2],
                         press_pa_daily_min |-> p[3], press_trend |-> p[4]]))

\* RainPointSoilMoistureSensor._parse_device_specific_status_d_value
SoilMoistureSpecific(d, str) ==
    LET parts == Split(str, ",")
    IN  IF Len(parts) # 3 THEN Raised(d, "ValueError")
        ELSE LET temp == IntParse(parts[1])
                 moist == IntParse(parts[2])
                 light == IntParse(From2(parts[3]))
                 d1 == [d EXCEPT !.temp_mk_current = Some(temp_to_mk(temp.val))]
                 d2 == [d1 EXCEPT !.moist_percent_current = Some(moist.val)]
             IN  IF ~temp.ok THEN Raised(d, "ValueError")
                 ELSE IF ~moist.ok THEN Raised(d1, "ValueError")
                 ELSE IF ~light.ok THEN Raised(d2, "ValueError")
                 ELSE Returned([d2 EXCEPT
                                  !.light_lux_current = Some(Tenth(light.val))])

\* RainPointRainSensor._parse_device_specific_status_d_value
RainSensorSpecific(d, str) ==
    LET r == parse_stats_value(From2(str))
    IN  IF \E i \in 1..4 : r[i] = None THEN Raised(d, "TypeError")
        ELSE Returned(SetAttrs(d,
               [rainfall_mm_total |-> Some(Tenth(r[1][1])),
                rainfall_mm_hour |-> Some(Tenth(r[2][1])),
                rainfall_mm_daily |-> Some(Tenth(r[3][1])),
                rainfall_mm_7days |-> Some(Tenth(r[4][1]))]))

\* RainPointAirSensor._parse_device_specific_status_d_value
AirSensorSpecific(d, str) ==
    LET parts == Split(str, ",")
    IN  IF Len(parts) < 2 THEN Raised(d, "ValueError")
        ELSE LET t == parse_stats_value(parts[1])
                 h == parse_stats_value(parts[2])
             IN  IF ~TempsOk(t) THEN Raised(d, "TypeError")
                 ELSE Returned(SetAttrs(d,
                        [temp_mk_current |-> TempsToMk(t)[1],
                         temp_mk_daily_max |-> TempsToMk(t)[2],
                         temp_mk_daily_min |-> TempsToMk(t)[3],
                         temp_trend |-> TempsToMk(t)[4],
                         hum_current |-> h[1], hum_daily_max |-> h[2],
                         hum_daily_min |-> h[3], hum_trend |-> h[4]]))

\* _parse_device_specific_status_d_value of the class k: the hubs, the plain
\* subdevice and the 2-zone timer pass.
parse_device_specific_status_d_value(k, d, str) ==
    CASE k = "RainPointDisplayHub" -> DisplayHubSpecific(d, str)
      [] k = "RainPointSoilMoistureSensor" -> SoilMoistureSpecific(d, str)
      [] k = "RainPointRainSensor" -> RainSensorSpecific(d, str)
      [] k = "RainPointAirSensor" -> AirSensorSpecific(d, str)
      [] OTHER -> Returned(d)

\* HomgarDevice._parse_status_d_value
parse_status_d_value(k, d, val) ==
    LET parts == Split(val, ";")
    IN  IF Len(parts) # 2 THEN Raised(d, "ValueError")
        ELSE LET g == parse_general_status_d_value(d, parts[1])
             IN  IF g.raised # "none" THEN g
                 ELSE parse_device_specific_status_d_value(k, g.dev, parts[2])

-----------------------------------------------------------------------------
(* RainPointWaterFlowMeter: the hex blob of tagged little-endian values *)

HexUpper == Chars("0123456789ABCDEF")
HexLower == Chars("0123456789abcdef")
IsHex(c) == \E i \in 1..16 : HexUpper[i] = c \/ HexLower[i] = c
HexVal(c) == (CHOOSE i \in 1..16 : HexUpper[i] = c \/ HexLower[i] = c) - 1

\* bytes.fromhex: two hex digits a byte; an odd length or any other
\* character raises ValueError.  (Inputs here hold no white space.)
FromHexOk(str) == Len(str) % 2 = 0 /\ \A i \in 1..Len(str) : IsHex(str[i])
FromHex(str) ==
    [i \in 1..(Len(str) \div 2) |->
        16 * HexVal(str[2 * i - 1]) + HexVal(str[2 * i])]

\* -((-b) & 0xff)
RssiOfByte(b) == 0 - ((256 - b) % 256)

\* A value of the blob is an unsigned 32-bit number, wider than the model
\* checker's integers: it is kept exactly, as <<high 16 bits, low 16 bits>>.
U32(n) == <<n \div 65536, n % 65536>>

\* (value >> shift) & mask of decodeTimestamp, mask + 1 a power of two
Bits(v, shift, mask) ==
    IF shift >= 16 THEN (v[1] \div (2 ^ (shift - 16))) % (mask + 1)
    ELSE ((v[2] \div (2 ^ shift)) + (v[1] % (mask + 1)) * (2 ^ (16 - shift)))
            % (mask + 1)

IsLeap(y) == (y % 4 = 0 /\ y % 100 # 0) \/ y % 400 = 0
DaysInMonth(y, m) ==
    IF m = 2 THEN (IF IsLeap(y) THEN 29 ELSE 28)
    ELSE IF m \in {4, 6, 9, 11} THEN 30 ELSE 31

\* decodeTimestamp: datetime.datetime(...) raises ValueError for fields
\* that are no calendar date and time.
decodeTimestamp(value) ==
    LET sec == Bits(value, 0, 63)
        min == Bits(value, 6, 63)
        hour == Bits(value, 12, 31)
        day == Bits(value, 17, 31)
        month == Bits(value, 22, 15)
        year == Bits(value, 26, 63) + 2020
    IN  [ok |-> /\ month \in 1..12
                /\ day >= 1 /\ day <= DaysInMonth(year, month)
                /\ hour <= 23 /\ min <= 59 /\ sec <= 59,
         val |-> <<year, month, day, hour, min, sec>>]

\* A variant that reads the four value bytes most significant first.
ValueBigEndian(B, i) ==
    <<256 * B[i + 1] + B[i + 2], 256 * B[i + 3] + B[i + 4]>>

\* The for loop of lines 375-380 on the bytes at 0-based i .. i+3
ValueLittleEndian(B, i) ==
    <<B[i + 3] + 256 * B[i + 4], B[i + 1] + 256 * B[i + 2]>>

\* A variant of the match statement in which an unknown tag falls into the
\* last known case.
StoreTagFallThrough(d, tag, value) ==
    CASE tag \in {11, 220} -> Returned(d)
      [] tag = 183 ->
            IF decodeTimestamp(value).ok
            THEN Returned([d EXCEPT
                             !.endOfLastUsage = Some(decodeTimestamp(value).val)])
            ELSE Raised(d, "ValueError")
      [] tag = 7 -> Returned([d EXCEPT !.currentDuration = Some(value)])
      [] tag = 175 -> Returned([d EXCEPT !.currentUsage = Some(value)])
      [] tag = 159 -> Returned([d EXCEPT !.lastUsage = Some(value)])
      [] tag = 10 -> Returned([d EXCEPT !.lastDuration = Some(value)])
      [] tag = 203 -> Returned([d EXCEPT !.totalUsageCurrentDay = Some(value)])
      [] OTHER -> Returned([d EXCEPT !.totalUsage = Some(value)])

\* The match statement of lines 381-401
StoreTag(d, tag, value) ==
    CASE tag \in {11, 220} -> Returned(d)
      [] tag = 183 ->
            IF decodeTimestamp(value).ok
            THEN Returned([d EXCEPT
                             !.endOfLastUsage = Some(decodeTimestamp(value).val)])
            ELSE Raised(d, "ValueError")
      [] tag = 7 -> Returned([d EXCEPT !.currentDuration = Some(value)])
      [] tag = 175 -> Returned([d EXCEPT !.currentUsage = Some(value)])
      [] tag = 159 -> Returned([d EXCEPT !.lastUsage = Some(value)])
      [] tag = 10 -> Returned([d EXCEPT !.lastDuration = Some(value)])
      [] tag = 203 -> Returned([d EXCEPT !.totalUsageCurrentDay = Some(value)])
      [] tag = 179 -> Returned([d EXCEPT !.totalUsage = Some(value)])
      [] OTHER -> Returned(d)

\* Lines 363-369: split at '#', decode the hex, take the rssi from byte 1.
\* bytesArray[1] raises IndexError on fewer than two bytes.
FlowHeader(d, val) ==
    LET parts == Split(val, "#")
    IN  IF Len(parts) # 2 \/ ~FromHexOk(parts[2])
        THEN [dev |-> d, raised |-> "ValueError", B |-> <<>>]
        ELSE IF Len(FromHex(parts[2])) < 2
        THEN [dev |-> d, raised |-> "IndexError", B |-> FromHex(parts[2])]
        ELSE [dev |-> [d EXCEPT !.rf_rssi = Some(RssiOfByte(FromHex(parts[2])[2]))],
              raised |-> "none", B |-> FromHex(parts[2])]

\* One iteration of the while loop of lines 370-401, entered with
\* st.idx < len(bytesArray).  st.maxRead is the largest index asked of
\* bytesArray so far: an index >= len(bytesArray) raises IndexError.
FlowIteration(B, st) ==
    LET tag == B[st.idx + 1]
        at == st.idx + 1
        short == at + 3 >= Len(B)
        r == StoreTag(st.dev, tag, ValueLittleEndian(B, at))
    IN  IF tag = 255
        THEN [st EXCEPT !.idx = at,
                        !.maxRead = IF at - 1 > @ THEN at - 1 ELSE @]
        ELSE IF short
        THEN [st EXCEPT !.idx = Len(B), !.maxRead = Len(B),
                        !.raised = "IndexError"]
        ELSE [st EXCEPT !.idx = at + 4, !.maxRead = at + 3,
                        !.dev = r.dev, !.raised = r.raised]

RECURSIVE FlowLoop(_, _)
FlowLoop(B, st) ==
    IF st.raised # "none" \/ st.idx >= Len(B) THEN st
    ELSE FlowLoop(B, FlowIteration(B, st))

\* The cursor on entering the loop (idx = 3); the loop has read nothing yet
LoopEntry(h) ==
    [dev |-> h.dev, raised |-> h.raised, idx |-> 3, maxRead |-> 0 - 1]

\* RainPointWaterFlowMeter._parse_status_d_value
FlowMeterParse(d, val) ==
    LET h == FlowHeader(d, val)
        st == FlowLoop(h.B, LoopEntry(h))
    IN  IF h.raised # "none" THEN Raised(h.dev, h.raised)
        ELSE [dev |-> st.dev, raised |-> st.raised]

-----------------------------------------------------------------------------
(* set_device_status *)

\* HomgarDevice.set_device_status; the flow meter overrides
\* _parse_status_d_value.
BaseSetDeviceStatus(k, d, e) ==
    IF e.id = DId(d)
    THEN IF k = "RainPointWaterFlowMeter" THEN FlowMeterParse(d, e.value)
         ELSE parse_status_d_value(k, d, e.value)
    ELSE Returned(d)

\* A variant of the "state" branch that defaults a missing second number
\* and clears connected when it does.
DisplayHubStateLenient(d, val) ==
    LET parts == Split(val, ",")
    IN  IF \E i \in 1..Len(parts) : ~IntParse(parts[i]).ok
        THEN Raised(d, "ValueError")
        ELSE IF Len(parts) = 2
        THEN Returned([d EXCEPT !.battery_state = Some(IntParse(parts[1]).val),
                                !.wifi_rssi = Some(IntParse(parts[2]).val)])
        ELSE Returned([d EXCEPT !.battery_state = Some(IntParse(parts[1]).val),
                                !.connected = Some(FALSE)])

\* Line 171: [int(s) for s in val.split(',')] unpacked into two attributes
DisplayHubState(d, val) ==
    LET parts == Split(val, ",")
    IN  IF \E i \in 1..Len(parts) : ~IntParse(parts[i]).ok
        THEN Raised(d, "ValueError")
        ELSE IF Len(parts) # 2 THEN Raised(d, "ValueError")
        ELSE Returned([d EXCEPT !.battery_state = Some(IntParse(parts[1]).val),
                                !.wifi_rssi = Some(IntParse(parts[2]).val)])

\* Line 173: self.connected = int(val) == 1
DisplayHubConnected(d, val) ==
    IF ~IntParse(val).ok THEN Raised(d, "ValueError")
    ELSE Returned([d EXCEPT !.connected = Some(IntParse(val).val = 1)])

\* RainPointDisplayHub.set_device_status
DisplayHubSetDeviceStatus(k, d, e) ==
    IF e.id = Chars("state") THEN DisplayHubState(d, e.value)
    ELSE IF e.id = Chars("connected") THEN DisplayHubConnected(d, e.value)
    ELSE BaseSetDeviceStatus(k, d, e)

\* set_device_status of the class k
set_device_status(k, d, e) ==
    IF k = "RainPointDisplayHub" THEN DisplayHubSetDeviceStatus(k, d, e)
    ELSE BaseSetDeviceStatus(k, d, e)

-----------------------------------------------------------------------------
(* The status entries a poll may hold *)

SubAddresses == {5, 12}

StateValues == {"1,-40", "0,-70", "1", "a,b", "1,2,3"}
ConnectedValues == {"1", "0", "01", "x", ""}

DisplayHubValues ==
    {"1,-50,1;781(781/723/1),52(64/50/1),P=10213(10222/10205/1),",
     "1,-67,1;320(330/310/0),40(45/35/0),P=9990(9991/9989/0),",
     "1,-50,1;781(781/723,52(64/50/1),P=10213(10222/10205/1),",
     "1,-50,1;781(781/723/1),52[64/50/1],P=10213(10222/10205/1),",
     "1,-67,1;320(330/310/0),40(45/35/0),P=9990(9991/9989),",
     "1,-67,1;x320(330/310/0),40(45/35/0,P=9990(9991/9989/0),",
     "1,-50,1;781(781/723/1),52(64/50/1)",
     "1,x,1;781(781/723/1),52(64/50/1),P=10213(10222/10205/1),",
     "1,-50;781(781/723/1),52(64/50/1),P=10213(10222/10205/1),",
     "1,-50,1"}

AirSensorValues ==
    {"1,-50,1;755(1020/588/1),54(91/24/1),",
     "1,-67,1;320(330/310/0),40(45/35/0),",
     "1,-50,1;755(1020/588),54(91/24/1),",
     "1,-67,1;755(1020/588/1),54(91/24/1)x,",
     "1,-50,1;755(1020/588/1)",
     "1,x,1;755(1020/588/1),54(91/24/1),"}

RainSensorValues ==
    {"1,-50,1;R=270(0/0/270)",
     "1,-67,1;R=5(1/2/3)",
     "1,-50,1;R=270(0/0/270",
     "1,-67,1;R=270(0/0/270)x",
     "1,-50,1;",
     "1,x,1;R=270(0/0/270)"}

SoilMoistureValues ==
    {"1,-50,1;766,52,G=31351",
     "1,-67,1;320,40,G=10",
     "1,-50,1;x,52,G=1",
     "1,-67,1;766,x,G=1",
     "1,-50,1;320,40,G=",
     "1,-50,1;766,52",
     "1,-50,1;766;52"}

PlainValues ==
    {"1,-50,1;0,9,0,0,0,0|0,1291,0,0,0,0",
     "1,-67,1;",
     "1,x,1;",
     "1,-50,1"}

\* The docstring's example of a flow-meter status
FlowMeterExample ==
    "10#E1CE00FF0B00000000DC01990000B7D9E66A16FF0700000000AF000000009F07000000FF0A02000000CB07000000B307000000"

\* Flow-meter values that decode: an unknown tag (0x99), lower case,
\* a header alone
FlowMeterGoodValues ==
    {FlowMeterExample,
     "10#00B7000763000000991234567807FFFFFFFFAF01000000",
     "10#e1ce00ff0a02000000",
     "10#E1CE00"}

\* Blobs whose 0xb7 value is no date: month 0 (after a duration, before a
\* usage), day 0, hour 24, minute 60, second 60, 30 February
FlowMeterBadStampValues ==
    {"10#E1CE000705000000B700000000AF09000000",
     "10#E1CE00B700004000",
     "10#E1CE00B700804300",
     "10#E1CE00B7000F4200",
     "10#E1CE00B73C004200",
     "10#E1CE00B70000BC00"}

\* Envelopes that do not decode: no '#', two '#', an odd number of hex
\* digits, a character that is no hex digit
FlowMeterBadEnvelopeValues ==
    {"10E1CE00", "10#E1CE00#", "10#E1C", "10#E1CG00"}

\* Blobs that end early: inside a value, before the rssi byte
FlowMeterShortValues == {"10#E1CE000700", "10#E1"}

FlowMeterValues ==
    FlowMeterGoodValues \cup FlowMeterBadStampValues
    \cup FlowMeterBadEnvelopeValues \cup FlowMeterShortValues

DValues(k) ==
    CASE k = "RainPointDisplayHub" -> DisplayHubValues
      [] k = "RainPointAirSensor" -> AirSensorValues
      [] k = "RainPointRainSensor" -> RainSensorValues
      [] k = "RainPointSoilMoistureSensor" -> SoilMoistureValues
      [] k = "RainPointWaterFlowMeter" -> FlowMeterValues
      [] OTHER -> PlainValues

Entry(id, value) == [id |-> Chars(id), value |-> Chars(value)]
NoEntry == [id |-> <<>>, value |-> <<>>]

\* The entries of $.data.subDeviceStatus a poll of the network of a device
\* of class k may hold
Entries(k) ==
    {Entry(id, v) : id \in {"D01", "D05", "D12"}, v \in DValues(k)}
    \cup {Entry("state", v) : v \in StateValues}
    \cup {Entry("connected", v) : v \in ConnectedValues}

-----------------------------------------------------------------------------
(* A device through a polling session *)

Unused ==
    /\ s = <<>> /\ stat = AllAbsent
    /\ items = <<>> /\ bytesArray = <<>> /\ idx = 0 /\ maxRead = 0
    /\ batch = <<>> /\ pos = 0 /\ pass = 0 /\ once = <<>> /\ onError = "none"

Init ==
    /\ kind \in Kinds
    /\ \E a \in SubAddresses : dev = NewDevice(kind, a)
    /\ raised = "none"
    /\ last = NoEntry
    /\ pc = "poll"
    /\ Unused

\* The poll loop hands an entry to the device whose status ids hold the
\* entry's id (docstring of get_device_status_ids).
Matches(k, d, e) == e.id \in get_device_status_ids(k, d)

Apply(e) ==
    LET r == set_device_status(kind, dev, e)
    IN  /\ dev' = r.dev
        /\ raised' = r.raised
        /\ last' = e

\* An entry for the display hub: RainPointDisplayHub.set_device_status
DisplayHubStatus ==
    /\ pc = "poll" /\ kind = "RainPointDisplayHub"
    /\ \E e \in Entries(kind) : Matches(kind, dev, e) /\ Apply(e)
    /\ UNCHANGED <<kind, pc, s, stat, items, bytesArray, idx, maxRead,
                   batch, pos, pass, once, onError>>

\* An entry for a subdevice: HomgarDevice.set_device_status
SubDeviceStatus ==
    /\ pc = "poll" /\ kind \in SubDevices
    /\ \E e \in Entries(kind) : Matches(kind, dev, e) /\ Apply(e)
    /\ UNCHANGED <<kind, pc, s, stat, items, bytesArray, idx, maxRead,
                   batch, pos, pass, once, onError>>

\* An entry whose id is none of the device's: set_device_status is not called
UnmatchedEntry ==
    /\ pc = "poll"
    /\ \E e \in Entries(kind) :
          /\ ~Matches(kind, dev, e)
          /\ last' = e
    /\ raised' = "none"
    /\ UNCHANGED <<kind, dev, pc, s, stat, items, bytesArray, idx, maxRead,
                   batch, pos, pass, once, onError>>

Next == DisplayHubStatus \/ SubDeviceStatus \/ UnmatchedEntry

Spec == Init /\ [][Next]_vars

-----------------------------------------------------------------------------
(* _parse_stats_value on every string over a small alphabet *)

MaxLen == 9

\* A digit, the three punctuation marks of the grammar, and another character
Alphabet == {"7", "(", ")", "/", "x"}

NoDevice ==
    /\ kind = "none" /\ dev = <<>> /\ raised = "none" /\ last = NoEntry

InitTriplet ==
    /\ pc = "triplet"
    /\ s = <<>>
    /\ stat = parse_stats_value(<<>>)
    /\ NoDevice
    /\ items = <<>> /\ bytesArray = <<>> /\ idx = 0 /\ maxRead = 0
    /\ batch = <<>> /\ pos = 0 /\ pass = 0 /\ once = <<>> /\ onError = "none"

\* The next string, one character longer, is parsed
ParseLonger ==
    /\ pc = "triplet"
    /\ Len(s) < MaxLen
    /\ \E c \in Alphabet : s' = Append(s, c)
    /\ stat' = parse_stats_value(s')
    /\ UNCHANGED <<kind, dev, raised, last, pc, items, bytesArray, idx,
                   maxRead, batch, pos, pass, once, onError>>

NextTriplet == ParseLonger

SpecTriplet == InitTriplet /\ [][NextTriplet]_vars

\* The grammar C(A/B/T), stated by where its punctuation stands: a, b and c
\* are the places of "(", the first "/" and the second "/", with a digit at
\* every other place but the last, which holds ")".
TripletPlaces(str) ==
    {p \in {<<a, b, c>> : a \in {i \in 2..Len(str) : str[i] = "("},
                          b \in {i \in 4..Len(str) : str[i] = "/"},
                          c \in {i \in 6..Len(str) : str[i] = "/"}} :
        /\ p[1] + 1 < p[2] /\ p[2] + 1 < p[3] /\ p[3] + 1 < Len(str)
        /\ str[Len(str)] = ")"
        /\ \A i \in 1..(Len(str) - 1) :
              i \notin {p[1], p[2], p[3]} => IsDigit(str[i])}

\* The number a run of decimal digits writes
Decimal(str) ==
    LET n == Len(str)
        place[i \in 0..n] ==
            IF i = 0 THEN 0 ELSE place[i - 1] + DigitVal(str[i]) * 10 ^ (n - i)
    IN  place[n]

\* C4: parse_stats_value(s) is (C, A, B, T) exactly when s is C(A/B/T) with
\* four non-empty runs of digits and nothing around it, and is all-absent for
\* every other string.
C4_TripletGrammar ==
    pc = "triplet" =>
        IF TripletPlaces(s) = {} THEN stat = AllAbsent
        ELSE \E p \in TripletPlaces(s) :
                stat = <<Some(Decimal(SubSeq(s, 1, p[1] - 1))),
                         Some(Decimal(SubSeq(s, p[1] + 1, p[2] - 1))),
                         Some(Decimal(SubSeq(s, p[2] + 1, p[3] - 1))),
                         Some(Decimal(SubSeq(s, p[3] + 1, Len(s) - 1)))>>

\* A well-formed triplet has been parsed
C4_Witness ==
    /\ pc = "triplet"
    /\ s = Chars("7(7/7/7)")
    /\ stat = <<Some(7), Some(7), Some(7), Some(7)>>

-----------------------------------------------------------------------------
(* The flow meter's decode loop, one iteration a step, on built blobs *)

MaxRecords == 2

\* The six tags that name a field, an unknown tag (0x99), the time stamp's
\* tag (0xb7) and one of the two reserved tags (0x0b)
FlowTags == {7, 175, 159, 10, 203, 179, 153, 183, 11}

\* 7 (as a time stamp: month 0), 0x166AE6D9 (the docstring's time stamp,
\* 2025-09-21 14:27:25) and 0xFFFFFFFF (whose bytes look like padding)
FlowItemValues == {U32(7), <<5738, 59097>>, <<65535, 65535>>}

Padding == [tag |-> 255, value |-> None]
FlowItems ==
    {Padding} \cup {[tag |-> tg, value |-> Some(v)] :
                       tg \in FlowTags, v \in FlowItemValues}

\* A record's five bytes, the value least significant byte first
EncodeItem(it) ==
    IF it.tag = 255 THEN <<255>>
    ELSE LET v == it.value[1]
         IN  <<it.tag, v[2] % 256, v[2] \div 256, v[1] % 256, v[1] \div 256>>

RECURSIVE EncodeItems(_)
EncodeItems(recs) ==
    IF recs = <<>> THEN <<>>
    ELSE EncodeItem(Head(recs)) \o EncodeItems(Tail(recs))

\* bytes.hex().upper()
ToHex(B) ==
    [i \in 1..(2 * Len(B)) |->
        IF i % 2 = 1 THEN HexUpper[(B[(i + 1) \div 2] \div 16) + 1]
        ELSE HexUpper[(B[i \div 2] % 16) + 1]]

\* The header of the docstring's example: E1, the rssi byte CE, 00
ExampleHeader == <<225, 206, 0>>

\* The blob of the items, with its last bytes cut off
BlobBytes(it) ==
    LET all == ExampleHeader \o EncodeItems(it.recs)
    IN  SubSeq(all, 1, Len(all) - it.cut)

InitFlow ==
    /\ pc = "header"
    /\ kind = "RainPointWaterFlowMeter"
    /\ \E a \in SubAddresses : dev = NewDevice(kind, a)
    /\ raised = "none"
    /\ \E n \in 0..MaxRecords : \E recs \in [1..n -> FlowItems] :
          \E cut \in 0..4 : items = [recs |-> recs, cut |-> cut]
    /\ last = [id |-> DId(dev), value |-> Chars("10#") \o ToHex(BlobBytes(items))]
    /\ bytesArray = <<>> /\ idx = 0 /\ maxRead = 0 - 1
    /\ s = <<>> /\ stat = AllAbsent
    /\ batch = <<>> /\ pos = 0 /\ pass = 0 /\ once = <<>> /\ onError = "none"

\* Lines 363-369
FlowDecodeHeader ==
    /\ pc = "header"
    /\ LET h == FlowHeader(dev, last.value)
       IN  /\ dev' = h.dev
           /\ raised' = h.raised
           /\ bytesArray' = h.B
           /\ idx' = LoopEntry(h).idx
           /\ maxRead' = LoopEntry(h).maxRead
           /\ pc' = IF h.raised = "none" THEN "loop" ELSE "raised"
    /\ UNCHANGED <<kind, last, s, stat, items, batch, pos, pass, once, onError>>

\* One iteration of the while loop
FlowLoopIteration ==
    /\ pc = "loop"
    /\ idx < Len(bytesArray)
    /\ LET st == FlowIteration(bytesArray,
                    [dev |-> dev, raised |-> raised, idx |-> idx,
                     maxRead |-> maxRead])
       IN  /\ dev' = st.dev
           /\ raised' = st.raised
           /\ idx' = st.idx
           /\ maxRead' = st.maxRead
           /\ pc' = IF st.raised = "none" THEN "loop" ELSE "raised"
    /\ UNCHANGED <<kind, last, s, stat, items, bytesArray, batch, pos, pass,
                   once, onError>>

\* The while condition fails: the method returns
FlowLoopExit ==
    /\ pc = "loop"
    /\ idx >= Len(bytesArray)
    /\ pc' = "done"
    /\ UNCHANGED <<kind, dev, raised, last, s, stat, items, bytesArray, idx,
                   maxRead, batch, pos, pass, once, onError>>

NextFlow == FlowDecodeHeader \/ FlowLoopIteration \/ FlowLoopExit

SpecFlow == InitFlow /\ [][NextFlow]_vars

-----------------------------------------------------------------------------
(* Claims about the decode loop (SpecFlow) *)

\* The tags that name a field of the device
FieldOfTag ==
    {<<7, "currentDuration">>, <<175, "currentUsage">>, <<159, "lastUsage">>,
     <<10, "lastDuration">>, <<203, "totalUsageCurrentDay">>,
     <<179, "totalUsage">>}

\* The value of the last record with this tag, None when there is none
LastWith(recs, tg) ==
    LET at == {i \in 1..Len(recs) : recs[i].tag = tg}
    IN  IF at = {} THEN None
        ELSE recs[CHOOSE i \in at : \A j \in at : j <= i].value

\* What the records say each field is, were every record decoded
FieldsAsEncoded(d, recs) ==
    \A ft \in FieldOfTag : d[ft[2]] = LastWith(recs, ft[1])

\* The decode of a whole blob (nothing cut off) has ended
WholeBlobDecoded == pc \in {"done", "raised"} /\ items.cut = 0

\* Every 0xb7 record holds a calendar date and time
StampsValid(recs) ==
    \A i \in 1..Len(recs) :
        recs[i].tag = 183 => decodeTimestamp(recs[i].value[1]).ok

\* C5 as stated: for every blob of a 3-byte header, padding bytes and
\* complete records, each of the six field tags sets its field to the encoded
\* value, and neither padding nor a record with another tag changes how later
\* records are decoded.
C5_EveryBlobRoundTrips ==
    WholeBlobDecoded => FieldsAsEncoded(dev, items.recs)

\* C5 as amended: the same, for the blobs in which no 0xb7 record holds a
\* value that is no calendar date and time; the decode then returns with the
\* cursor at the end of the blob.
C5_BlobRoundTrips ==
    (WholeBlobDecoded /\ StampsValid(items.recs)) =>
        /\ raised = "none"
        /\ idx = Len(bytesArray)
        /\ FieldsAsEncoded(dev, items.recs)

\* A blob with an unknown tag before a field's record has been decoded
C5_Witness ==
    /\ pc = "done"
    /\ items = [recs |-> <<[tag |-> 153, value |-> Some(<<65535, 65535>>)],
                           [tag |-> 7, value |-> Some(U32(7))]>>,
                cut |-> 0]
    /\ dev.currentDuration = Some(U32(7))
    /\ dev.totalUsage = None

\* C10: on every byte sequence the loop asks bytesArray only for indices
\* below its length (and so ends by its while condition, the cursor growing
\* with every iteration).
C10_ReadsInsideTheBlob ==
    pc \in {"loop", "done", "raised"} => maxRead < Len(bytesArray)

-----------------------------------------------------------------------------
(* Claims about a device through a polling session (Spec) *)

\* set_device_status has just been called with the entry last
Delivered == last # NoEntry /\ Matches(kind, dev, last)

\* An attribute's value, None while the object has no such attribute
Attr(d, name) == IF name \in DOMAIN d THEN d[name] ELSE None

\* The triplet fields of the classes that decode them: the attributes each
\* fills, whether two characters are stripped first, and how its four
\* numbers are stored.
TempSlot ==
    [names |-> <<"temp_mk_current", "temp_mk_daily_max", "temp_mk_daily_min",
                 "temp_trend">>, strip |-> FALSE, as |-> "mk"]
HumSlot ==
    [names |-> <<"hum_current", "hum_daily_max", "hum_daily_min", "hum_trend">>,
     strip |-> FALSE, as |-> "int"]
PressSlot ==
    [names |-> <<"press_pa_current", "press_pa_daily_max",
                 "press_pa_daily_min", "press_trend">>,
     strip |-> TRUE, as |-> "int"]
RainSlot ==
    [names |-> <<"rainfall_mm_total", "rainfall_mm_hour", "rainfall_mm_daily",
                 "rainfall_mm_7days">>, strip |-> TRUE, as |-> "tenth"]
TripletSlots(k) ==
    CASE k = "RainPointDisplayHub" -> <<TempSlot, HumSlot, PressSlot>>
      [] k = "RainPointAirSensor" -> <<TempSlot, HumSlot>>
      [] k = "RainPointRainSensor" -> <<RainSlot>>
      [] OTHER -> <<>>

\* The general and the specific part of a "Dxx" value
GeneralPart(val) == Split(val, ";")[1]
SpecificPart(val) == Split(val, ";")[2]

\* The text of the i-th triplet field of a specific part (the rain sensor's
\* specific part is its one field)
SlotText(k, spec, i) ==
    LET raw == IF k = "RainPointRainSensor" THEN spec ELSE Split(spec, ",")[i]
    IN  IF TripletSlots(k)[i].strip THEN From2(raw) ELSE raw

\* A "Dxx" value that splits into a general part with a numeric rssi and a
\* specific part with all its triplet fields
TripletEntry(k, val) ==
    /\ Len(Split(val, ";")) = 2
    /\ Len(Split(GeneralPart(val), ",")) = 3
    /\ IntParse(Split(GeneralPart(val), ",")[2]).ok
    /\ k # "RainPointRainSensor" =>
          Len(Split(SpecificPart(val), ",")) >= Len(TripletSlots(k))

Malformed(text) == TripletPlaces(text) = {}

\* What a well-formed triplet field stores in its i-th attribute
Stored(slot, text, i) ==
    LET v == parse_stats_value(text)[i][1]
    IN  CASE slot.as = "mk" -> Some(temp_to_mk(v))
          [] slot.as = "tenth" -> Some(Tenth(v))
          [] OTHER -> Some(v)

\* C1: a "Dxx" entry with a malformed triplet field never raises in the
\* display hub, air sensor and rain sensor decoders: the malformed field's
\* attributes are left absent and the well-formed fields are stored.
C1_MalformedTripletTolerated ==
    (/\ kind \in {"RainPointDisplayHub", "RainPointAirSensor",
                  "RainPointRainSensor"}
     /\ Delivered /\ last.id = DId(dev)
     /\ TripletEntry(kind, last.value)
     /\ \E i \in 1..Len(TripletSlots(kind)) :
           Malformed(SlotText(kind, SpecificPart(last.value), i)))
    => /\ raised = "none"
       /\ \A i \in 1..Len(TripletSlots(kind)) :
             LET slot == TripletSlots(kind)[i]
                 text == SlotText(kind, SpecificPart(last.value), i)
             IN  \A j \in 1..4 :
                    Attr(dev, slot.names[j]) =
                        IF Malformed(text) THEN None ELSE Stored(slot, text, j)

\* The docstring's example has just been applied to a flow meter
ExampleApplied ==
    /\ kind = "RainPointWaterFlowMeter"
    /\ Delivered
    /\ last.value = Chars(FlowMeterExample)

\* C2 as stated: the example yields rf_rssi = -50, currentDuration = 7 and
\* totalUsage = 1971.
C2_ExampleAsStated ==
    ExampleApplied =>
        /\ dev.rf_rssi = Some(0 - 50)
        /\ dev.currentDuration = Some(U32(7))
        /\ dev.totalUsage = Some(U32(1971))

\* C2 as amended: the example yields rf_rssi = -50, currentDuration = 0 and
\* totalUsage = 7 (each tag byte is followed by its own four value bytes).
C2_ExampleDecoded ==
    ExampleApplied =>
        /\ raised = "none"
        /\ dev.rf_rssi = Some(0 - 50)
        /\ dev.currentDuration = Some(U32(0))
        /\ dev.totalUsage = Some(U32(7))

\* The example has been applied and the decode returned
C2_Witness == ExampleApplied /\ raised = "none" /\ dev.lastDuration = Some(U32(2))

\* C3: the status ids are {"D" + two-digit address} for every subdevice and
\* every hub but the display hub, whose ids are connected, state and D01.
C3_StatusIds ==
    kind \in Kinds =>
        get_device_status_ids(kind, dev) =
            IF kind = "RainPointDisplayHub"
            THEN {Chars("connected"), Chars("state"), Chars("D01")}
            ELSE {<<"D">> \o Format02d(dev.address[1])}

\* C7: a flow-meter entry with an invalid envelope, or with a 0xb7 value that
\* is no calendar date and time, lets no failure out of the status
\* application.
C7_NoFailurePropagates ==
    (/\ kind = "RainPointWaterFlowMeter"
     /\ Delivered
     /\ \E v \in FlowMeterBadStampValues \cup FlowMeterBadEnvelopeValues :
           last.value = Chars(v))
    => raised = "none"

\* Two comma-separated integers
TwoIntegers(val) ==
    /\ Len(Split(val, ",")) = 2
    /\ \A i \in 1..2 : IntParse(Split(val, ",")[i]).ok

\* C8: on the display hub a connected entry sets connected to whether the
\* value is "1", for every value and without failing; a state entry of two
\* integers sets battery_state and wifi_rssi to them.
C8_ConnectedAndState ==
    (kind = "RainPointDisplayHub" /\ Delivered) =>
        /\ last.id = Chars("connected") =>
              /\ raised = "none"
              /\ dev.connected = Some(last.value = Chars("1"))
        /\ (last.id = Chars("state") /\ TwoIntegers(last.value)) =>
              /\ raised = "none"
              /\ dev.battery_state = Some(IntParse(Split(last.value, ",")[1]).val)
              /\ dev.wifi_rssi = Some(IntParse(Split(last.value, ",")[2]).val)

\* The tags at the tag positions of the bytes B from 0-based index i on:
\* a padding byte is one position, any other tag is followed by four bytes
RECURSIVE TagsFrom(_, _)
TagsFrom(B, i) ==
    IF i >= Len(B) THEN {}
    ELSE IF B[i + 1] = 255 THEN TagsFrom(B, i + 1)
    ELSE {B[i + 1]} \cup TagsFrom(B, i + 5)

\* The attributes a flow-meter value carries: rf_rssi and the fields whose
\* tags occur in the blob
FlowCarried(val) ==
    LET parts == Split(val, "#")
        B == IF Len(parts) = 2 /\ FromHexOk(parts[2]) THEN FromHex(parts[2])
             ELSE <<>>
    IN  {"rf_rssi"}
        \cup {ft[2] : ft \in {x \in FieldOfTag : x[1] \in TagsFrom(B, 3)}}
        \cup (IF 183 \in TagsFrom(B, 3) THEN {"endOfLastUsage"} ELSE {})

\* Every attribute outside keep is what it was
OnlyChanges(keep) ==
    /\ DOMAIN dev \subseteq DOMAIN dev'
    /\ \A f \in DOMAIN dev' \ keep : f \in DOMAIN dev /\ dev'[f] = dev[f]

\* C9: an entry changes nothing it does not carry: an entry whose id is not
\* among the device's status ids changes nothing, a display hub state entry
\* changes battery_state and wifi_rssi at most, a connected entry connected
\* at most, a "Dxx" entry none of these three, a flow-meter blob rf_rssi and
\* the fields whose tags occur in it at most; and no entry changes address,
\* model code, device id or network id.
C9_Frame ==
    [][pc = "poll" =>
        /\ OnlyChanges(DOMAIN dev' \ {"address", "model_code", "did", "mid"})
        /\ ~Matches(kind, dev, last') => dev' = dev
        /\ (kind = "RainPointDisplayHub" /\ last'.id = Chars("state")) =>
              OnlyChanges({"battery_state", "wifi_rssi"})
        /\ (kind = "RainPointDisplayHub" /\ last'.id = Chars("connected")) =>
              OnlyChanges({"connected"})
        /\ (kind = "RainPointDisplayHub" /\ last'.id = Chars("D01")) =>
              OnlyChanges(DOMAIN dev'
                            \ {"battery_state", "wifi_rssi", "connected"})
        /\ kind = "RainPointWaterFlowMeter" =>
              OnlyChanges(FlowCarried(last'.value))]_vars

\* A blob with one tag has been applied to a flow meter that holds the
\* fields of an earlier blob
C9_Witness ==
    /\ kind = "RainPointWaterFlowMeter"
    /\ Delivered
    /\ last.value = Chars("10#e1ce00ff0a02000000")
    /\ dev.lastDuration = Some(U32(2))
    /\ dev.currentUsage = Some(U32(1))
    /\ dev.rf_rssi = Some(0 - 50)

-----------------------------------------------------------------------------
(* A poll's batch applied twice *)

MaxBatch == 2

\* The values of the batches' "Dxx" entries: for the display hub and the
\* flow meter some of DValues, for the other classes all of them
BatchValues(k) ==
    CASE k = "RainPointDisplayHub" ->
            {"1,-50,1;781(781/723/1),52(64/50/1),P=10213(10222/10205/1),",
             "1,-67,1;320(330/310/0),40(45/35/0),P=9990(9991/9989/0),",
             "1,-50,1;781(781/723,52(64/50/1),P=10213(10222/10205/1),",
             "1,-50,1;781(781/723/1),52[64/50/1],P=10213(10222/10205/1),"}
      [] k = "RainPointWaterFlowMeter" ->
            {FlowMeterExample,
             "10#00B7000763000000991234567807FFFFFFFFAF01000000",
             "10#e1ce00ff0a02000000",
             "10#E1CE000700",
             "10#E1CE000705000000B700000000AF09000000",
             "10E1CE00",
             "10#E1"}
      [] OTHER -> DValues(k)

\* The entries of a batch: values under the device's own id, for the display
\* hub its two channels, for the others an entry of another device
BatchEntries(k, d) ==
    {[id |-> DId(d), value |-> Chars(v)] : v \in BatchValues(k)}
    \cup (IF k = "RainPointDisplayHub"
          THEN {Entry("state", "1,-40"), Entry("state", "a,b"),
                Entry("connected", "1"), Entry("connected", "x")}
          ELSE {Entry("D07", "1,-50,1;")})

InitBatch ==
    /\ pc = "idle"
    /\ kind \in Kinds
    /\ dev = NewDevice(kind, 5)
    /\ raised = "none"
    /\ last = NoEntry
    /\ batch = <<>> /\ pos = 0 /\ pass = 0 /\ once = <<>>
    /\ onError \in {"abort", "continue"}
    /\ s = <<>> /\ stat = AllAbsent
    /\ items = <<>> /\ bytesArray = <<>> /\ idx = 0 /\ maxRead = 0

\* An earlier poll has left its values in the device
EarlierPoll ==
    /\ pc = "idle" /\ last = NoEntry
    /\ \E e \in BatchEntries(kind, dev) : Matches(kind, dev, e) /\ Apply(e)
    /\ UNCHANGED <<kind, pc, s, stat, items, bytesArray, idx, maxRead,
                   batch, pos, pass, once, onError>>

\* A poll answers with a batch
StartPoll ==
    /\ pc = "idle"
    /\ \E n \in 1..MaxBatch :
          \E b \in [1..n -> BatchEntries(kind, dev)] : batch' = b
    /\ pos' = 1 /\ pass' = 1 /\ pc' = "apply"
    /\ UNCHANGED <<kind, dev, raised, last, s, stat, items, bytesArray, idx,
                   maxRead, once, onError>>

\* The poll loop's next entry: handed to the device when its id is one of
\* the device's.  An exception either ends the loop or is caught by it.
ApplyEntry ==
    /\ pc = "apply" /\ pos <= Len(batch)
    /\ LET e == batch[pos]
           r == IF Matches(kind, dev, e) THEN set_device_status(kind, dev, e)
                ELSE Returned(dev)
       IN  /\ dev' = r.dev
           /\ raised' = r.raised
           /\ last' = e
           /\ pos' = IF r.raised # "none" /\ onError = "abort"
                     THEN Len(batch) + 1 ELSE pos + 1
    /\ UNCHANGED <<kind, pc, s, stat, items, bytesArray, idx, maxRead,
                   batch, pass, once, onError>>

\* The batch has been applied: once more, or done
EndOfBatch ==
    /\ pc = "apply" /\ pos > Len(batch)
    /\ IF pass = 1
       THEN once' = dev /\ pass' = 2 /\ pos' = 1 /\ pc' = pc
       ELSE pc' = "done" /\ UNCHANGED <<once, pass, pos>>
    /\ UNCHANGED <<kind, dev, raised, last, s, stat, items, bytesArray, idx,
                   maxRead, batch, onError>>

NextBatch == EarlierPoll \/ StartPoll \/ ApplyEntry \/ EndOfBatch

SpecBatch == InitBatch /\ [][NextBatch]_vars

\* C6: a batch applied twice in a row leaves the device as the batch applied
\* once left it.
C6_BatchIdempotent == pc = "done" => dev = once

\* A display hub has taken a batch of a state entry and a "D01" entry twice
C6_Witness ==
    /\ pc = "done"
    /\ kind = "RainPointDisplayHub"
    /\ batch[1].id = Chars("state")
    /\ batch[Len(batch)].id = Chars("D01")
    /\ dev.battery_state # None
    /\ dev.hum_current # None

=============================================================================
